---- MODULE Spec2Model ----
(***************************************************************************)
(* Model of go-querymap (pkg/querymap/querymap.go): the bracket-key parser *)
(* nestedQuery, the merge engine QueryMap.set, the numeric-index           *)
(* normalizer NormalizeSlicesNumbersIndexes and the FromURL pipeline.      *)
(*                                                                         *)
(* Text that the code inspects byte by byte (keys) is a sequence of        *)
(* one-character strings; text that the code only moves around (values)    *)
(* is an opaque string.  Go byte indices are kept 0-based.                 *)
(***************************************************************************)
EXTENDS Integers, Sequences, FiniteSets, TLC

VARIABLES pc, urlQuery, urlQueryKeys, idx, data, todo, arg, ret

vars == <<pc, urlQuery, urlQueryKeys, idx, data, todo, arg, ret>>

(***************************************************************************)
(* Bounds                                                                  *)
(***************************************************************************)
\* raw keys in one query
MaxKeys == 2
\* values carried by one raw key
MaxVals == 2
\* nodes of a tree handed to NormalizeSlicesNumbersIndexes
MaxNodes == 4
\* nodes of the receiver plus nodes of the incoming value handed to set
MaxSetNodes == 6
\* bracket groups of a raw key handed to a single call of nestedQuery
MaxDepth == 3

(***************************************************************************)
(* Text                                                                    *)
(***************************************************************************)
Chars == {"+", "-", "0", "1", "2", "[", "]", "a", "b"}

Digits == {"0", "1", "2", "3", "4", "5", "6", "7", "8", "9"}

\* byte value of a character: Go compares and sorts strings bytewise
CharCode(c) ==
    CASE c = "+" -> 43
      [] c = "-" -> 45
      [] c = "0" -> 48
      [] c = "1" -> 49
      [] c = "2" -> 50
      [] c = "[" -> 91
      [] c = "]" -> 93
      [] c = "a" -> 97
      [] c = "b" -> 98

Min(x, y) == IF x < y THEN x ELSE y

\* s < t for Go strings: first differing byte decides, a proper prefix is smaller
StrLess(s, t) ==
    LET n == Min(Len(s), Len(t))
        diff == {i \in 1..n : s[i] # t[i]}
    IN  IF diff = {}
        THEN Len(s) < Len(t)
        ELSE LET i == CHOOSE j \in diff : \A k \in diff : j <= k
             IN  CharCode(s[i]) < CharCode(t[i])

\* a plausible slip: keys sorted as numbers (shorter first, then bytewise)
RECURSIVE SortKeysAsNumbers(_)
SortKeysAsNumbers(S) ==
    IF S = {} THEN <<>>
    ELSE LET least == CHOOSE k \in S : \A o \in S \ {k} :
                          \/ Len(k) < Len(o)
                          \/ Len(k) = Len(o) /\ StrLess(k, o)
         IN  <<least>> \o SortKeysAsNumbers(S \ {least})

\* slices.Sort on a set of distinct keys: ascending bytewise order
RECURSIVE SortKeys(_)
SortKeys(S) ==
    IF S = {} THEN <<>>
    ELSE LET least == CHOOSE k \in S : \A o \in S \ {k} : StrLess(k, o)
         IN  <<least>> \o SortKeys(S \ {least})

\* the sequences that list every element of S once
RECURSIVE Perms(_)
Perms(S) ==
    IF S = {} THEN {<<>>}
    ELSE UNION {{<<x>> \o p : p \in Perms(S \ {x})} : x \in S}

\* maps.Keys(m): the keys of the map, in an indeterminate order
mapsKeys(m) == Perms(DOMAIN m)

\* a plausible slip: the keys are sorted in descending order
slicesSortDescending(keys) ==
    LET up == SortKeys({keys[i] : i \in 1..Len(keys)})
    IN  [i \in 1..Len(up) |-> up[Len(up) + 1 - i]]

\* a plausible slip: the keys are used as maps.Keys returned them
slicesSortOmitted(keys) == keys

\* slices.Sort(keys) on a slice of distinct keys
slicesSort(keys) == SortKeys({keys[i] : i \in 1..Len(keys)})

\* strings.IndexRune(key, c): 0-based index of the first c, -1 when absent
IndexRune(key, c) ==
    LET hits == {i \in 1..Len(key) : key[i] = c}
    IN  IF hits = {} THEN -1
        ELSE (CHOOSE j \in hits : \A k \in hits : j <= k) - 1

\* key[lo:hi] with Go's 0-based half-open bounds
Slice(key, lo, hi) == SubSeq(key, lo + 1, hi)

\* the bounds Go checks at run time for key[lo:hi]; a violation panics
SliceOk(key, lo, hi) == 0 <= lo /\ lo <= hi /\ hi <= Len(key)

\* the value of a decimal digit
DigitValue(c) ==
    CASE c = "0" -> 0 [] c = "1" -> 1 [] c = "2" -> 2 [] c = "3" -> 3
      [] c = "4" -> 4 [] c = "5" -> 5 [] c = "6" -> 6 [] c = "7" -> 7
      [] c = "8" -> 8 [] c = "9" -> 9

\* strconv.IntSize: the width of int on a 64-bit build
IntSize == 64

\* the digits of 2^(IntSize-1), the magnitude of the least int; the
\* greatest int is one less
MinIntMagnitude ==
    IF IntSize = 64
    THEN <<"9", "2", "2", "3", "3", "7", "2", "0", "3", "6", "8", "5", "4",
           "7", "7", "5", "8", "0", "8">>
    ELSE <<"2", "1", "4", "7", "4", "8", "3", "6", "4", "8">>

\* digits without their leading zeros
RECURSIVE StripZeros(_)
StripZeros(ds) ==
    IF ds # <<>> /\ ds[1] = "0" THEN StripZeros(Tail(ds)) ELSE ds

\* the number written ds is less than the number written es (neither has a
\* leading zero)
DigitsLess(ds, es) ==
    \/ Len(ds) < Len(es)
    \/ /\ Len(ds) = Len(es)
       /\ \E i \in 1..Len(ds) :
             /\ DigitValue(ds[i]) < DigitValue(es[i])
             /\ \A j \in 1..(i - 1) : ds[j] = es[j]

\* strconv.Atoi(key) returns no error: an optional sign, then one or more
\* decimal digits, whose value is in the range of int (at most 2^63 - 1,
\* at least -2^63)
AtoiOk(key) ==
    LET signed == Len(key) > 0 /\ key[1] \in {"+", "-"}
        body == IF signed THEN Slice(key, 1, Len(key)) ELSE key
    IN  /\ Len(body) >= 1
        /\ \A i \in 1..Len(body) : body[i] \in Digits
        /\ \/ DigitsLess(StripZeros(body), MinIntMagnitude)
           \/ key[1] = "-" /\ StripZeros(body) = MinIntMagnitude

(***************************************************************************)
(* The value tree: string, []string, anyList, QueryMap                     *)
(***************************************************************************)
Str(s) == [t |-> "string", s |-> s]

Strs(ss) == [t |-> "[]string", ss |-> ss]

AnyList(l) == [t |-> "anyList", l |-> l]

QMap(m) == [t |-> "QueryMap", m |-> m]

newQueryMap == QMap(<<>>)

\* outcome of a call that aborted with a run-time panic
Panic == [t |-> "panic"]

\* the map m with m[k] = v stored
Put(m, k, v) == [x \in (DOMAIN m) \cup {k} |-> IF x = k THEN v ELSE m[x]]

\* a []string converted element by element into anyList items
Boxed(ss) == [i \in 1..Len(ss) |-> Str(ss[i])]

(***************************************************************************)
(* Merge engine: QueryMap.set                                              *)
(***************************************************************************)
\* the order in which a Go range statement visits the keys of a map; Go
\* leaves it unspecified; a single call of set is modelled with the keys
\* visited in ascending order, setAnyOrder below gives the results of every
\* order
RangeOrder(S) == SortKeys(S)

\* case string of the outer type switch (lines 29-39)
setString(entry, value) ==
    CASE value.t = "string" -> Strs(<<entry.s, value.s>>)
      [] value.t = "[]string" -> Strs(<<entry.s>> \o value.ss)
      [] value.t = "anyList" -> AnyList(<<entry>> \o value.l)
      [] value.t = "QueryMap" -> AnyList(<<entry, value>>)

\* a plausible slip in case []string: the incoming values are put in front
setStringsIncomingFirst(entry, value) ==
    CASE value.t = "string" -> Strs(<<value.s>> \o entry.ss)
      [] value.t = "[]string" -> Strs(value.ss \o entry.ss)
      [] value.t = "anyList" -> AnyList(value.l \o Boxed(entry.ss))
      [] value.t = "QueryMap" -> AnyList(<<value>> \o Boxed(entry.ss))

\* case []string of the outer type switch (lines 40-58)
setStrings(entry, value) ==
    CASE value.t = "string" -> Strs(Append(entry.ss, value.s))
      [] value.t = "[]string" -> Strs(entry.ss \o value.ss)
      [] value.t = "anyList" -> AnyList(Boxed(entry.ss) \o value.l)
      [] value.t = "QueryMap" -> AnyList(Append(Boxed(entry.ss), value))

\* case anyList of the outer type switch (lines 59-72)
setAnyList(entry, value) ==
    CASE value.t = "string" -> AnyList(Append(entry.l, value))
      [] value.t = "[]string" -> AnyList(entry.l \o Boxed(value.ss))
      [] value.t = "anyList" -> AnyList(entry.l \o value.l)
      [] value.t = "QueryMap" -> AnyList(Append(entry.l, value))

\* a plausible slip: the loop of lines 79-81 is missing
setQueryMapForgetsStrings(entry, value) ==
    CASE value.t = "string" -> AnyList(<<entry, value>>)
      [] value.t = "[]string" -> AnyList(<<entry>>)
      [] value.t = "anyList" -> AnyList(<<entry>> \o value.l)

\* case QueryMap of the outer type switch, incoming value not a QueryMap
\* (lines 73-86)
setQueryMap(entry, value) ==
    CASE value.t = "string" -> AnyList(<<entry, value>>)
      [] value.t = "[]string" -> AnyList(<<entry>> \o Boxed(value.ss))
      [] value.t = "anyList" -> AnyList(<<entry>> \o value.l)

\* the value assigned to q[key] by the cases of the two type switches that
\* build a list: every pair of shapes but QueryMap/QueryMap
setList(entry, value) ==
    CASE entry.t = "string" -> setString(entry, value)
      [] entry.t = "[]string" -> setStrings(entry, value)
      [] entry.t = "anyList" -> setAnyList(entry, value)
      [] entry.t = "QueryMap" -> setQueryMap(entry, value)

\* q.set(key, untypedValue): the receiver after the call.  An absent key
\* stores the value; QueryMap/QueryMap updates the existing entry in place,
\* one incoming key at a time (setAll is the range loop of lines 88-90);
\* every other pair assigns the list built by setList.
RECURSIVE set(_, _, _)
RECURSIVE setAll(_, _, _)

\* a plausible slip in the range loop: entry[k] = v instead of entry.set(k, v)
RECURSIVE setAllOverwrite(_, _, _)
setAllOverwrite(entry, value, order) ==
    IF order = <<>> THEN entry
    ELSE setAllOverwrite(QMap(Put(entry.m, Head(order), value.m[Head(order)])),
                         value, Tail(order))

setAll(entry, value, order) ==
    IF order = <<>> THEN entry
    ELSE setAll(set(entry, Head(order), value.m[Head(order)]), value, Tail(order))

\* a plausible slip in the range loop: q.set(k, v) instead of entry.set(k, v)
setWrongReceiver(q, key, untypedValue) ==
    IF key \notin DOMAIN q.m
    THEN QMap(Put(q.m, key, untypedValue))
    ELSE LET entry == q.m[key]
             value == untypedValue
         IN  IF entry.t = "QueryMap" /\ value.t = "QueryMap"
             THEN setAll(q, value, RangeOrder(DOMAIN value.m))
             ELSE QMap(Put(q.m, key, setList(entry, value)))

set(q, key, untypedValue) ==
    IF key \notin DOMAIN q.m
    THEN QMap(Put(q.m, key, untypedValue))
    ELSE LET entry == q.m[key]
             value == untypedValue
         IN  IF entry.t = "QueryMap" /\ value.t = "QueryMap"
             THEN QMap(Put(q.m, key, setAll(entry, value, RangeOrder(DOMAIN value.m))))
             ELSE QMap(Put(q.m, key, setList(entry, value)))

(***************************************************************************)
(* Key-path parser: nestedQuery                                            *)
(***************************************************************************)
\* a plausible slip: the branch for a key that starts "name][" is missing
currentKeyEndNoReversed(key, nextStart, nextEnd) ==
    IF nextStart = -1 /\ nextEnd # -1 /\ Len(key) = nextEnd + 1 THEN nextEnd
    ELSE IF nextStart # -1 /\ nextEnd # -1 /\ nextStart + 1 = nextEnd THEN nextStart
    ELSE IF nextStart # -1 /\ nextStart < nextEnd THEN nextStart
    ELSE Len(key)

\* the upper bound hi of the slice key[:hi] that becomes currentKey
\* (lines 101-111); Len(key) stands for "currentKey := key"
currentKeyEnd(key, nextStart, nextEnd) ==
    IF nextStart = -1 /\ nextEnd # -1 /\ Len(key) = nextEnd + 1 THEN nextEnd
    ELSE IF nextStart # -1 /\ nextEnd # -1 /\ nextStart + 1 = nextEnd THEN nextStart
    ELSE IF nextEnd + 1 = nextStart THEN nextEnd
    ELSE IF nextStart # -1 /\ nextStart < nextEnd THEN nextStart
    ELSE Len(key)

\* a plausible slip: only the first alternative of line 115 is tested
isAppendFirstOnly(key, nextStart, nextEnd) ==
    nextStart + 1 = nextEnd /\ nextEnd + 1 = Len(key)

\* the condition of line 115: the key ends in "[]" (or is "]")
isAppend(key, nextStart, nextEnd) ==
    \/ nextStart + 1 = nextEnd /\ nextEnd + 1 = Len(key)
    \/ /\ nextEnd # -1
       /\ nextStart > nextEnd
       /\ Slice(key, nextStart, Len(key)) = <<"[", "]">>
       /\ nextStart + 2 = Len(key)

\* a plausible slip: the rest of the key is always taken after the first "]"
nextKeyStartAfterEnd(nextStart, nextEnd) == nextEnd + 2

\* the rest of the key handed to the recursive call (lines 120-125)
nextKeyStart(nextStart, nextEnd) ==
    IF nextEnd # -1 /\ nextEnd < nextStart THEN nextEnd + 2 ELSE nextStart + 1

\* a plausible slip: the single value is not unwrapped
leafAlwaysList(value) == Strs(value)

\* the leaf stored for a key without further brackets (lines 129-132)
leaf(value) == IF Len(value) = 1 THEN Str(value[1]) ELSE Strs(value)

\* nestedQuery(data, key, value): data after the call, or Panic when a
\* slice expression of the call (or of a recursive call) is out of range
RECURSIVE nestedQuery(_, _, _)
nestedQuery(d, key, value) ==
    LET nextStart == IndexRune(key, "[")
        nextEnd == IndexRune(key, "]")
        hi == currentKeyEnd(key, nextStart, nextEnd)
    IN  IF ~SliceOk(key, 0, hi) THEN Panic
        ELSE
        LET currentKey == Slice(key, 0, hi)
        IN  IF isAppend(key, nextStart, nextEnd)
            THEN set(d, currentKey, Strs(value))
            ELSE IF nextStart # -1
            THEN LET lo == nextKeyStart(nextStart, nextEnd)
                 IN  IF ~SliceOk(key, lo, Len(key)) THEN Panic
                     ELSE LET inner == nestedQuery(newQueryMap,
                                                   Slice(key, lo, Len(key)), value)
                          IN  IF inner = Panic THEN Panic
                              ELSE set(d, currentKey, inner)
            ELSE set(d, currentKey, leaf(value))

(***************************************************************************)
(* The same calls under every order in which the range statement of line   *)
(* 88 may visit the keys of the incoming map: the set of possible results  *)
(***************************************************************************)
RECURSIVE setAnyOrder(_, _, _)
RECURSIVE setAllAnyOrder(_, _, _)

\* the range loop of lines 88-90 with the keys of rest still to visit
setAllAnyOrder(entry, value, rest) ==
    IF rest = {} THEN {entry}
    ELSE UNION {UNION {setAllAnyOrder(e, value, rest \ {k}) :
                          e \in setAnyOrder(entry, k, value.m[k])} :
                   k \in rest}

\* q.set(key, untypedValue): the receivers the call may leave
setAnyOrder(q, key, untypedValue) ==
    IF key \notin DOMAIN q.m
    THEN {QMap(Put(q.m, key, untypedValue))}
    ELSE LET entry == q.m[key]
             value == untypedValue
         IN  IF entry.t = "QueryMap" /\ value.t = "QueryMap"
             THEN {QMap(Put(q.m, key, e)) :
                      e \in setAllAnyOrder(entry, value, DOMAIN value.m)}
             ELSE {QMap(Put(q.m, key, setList(entry, value)))}

\* nestedQuery(data, key, value): the results the call may give, {Panic}
\* when a slice expression is out of range
RECURSIVE nestedQueryAnyOrder(_, _, _)
nestedQueryAnyOrder(d, key, value) ==
    LET nextStart == IndexRune(key, "[")
        nextEnd == IndexRune(key, "]")
        hi == currentKeyEnd(key, nextStart, nextEnd)
    IN  IF ~SliceOk(key, 0, hi) THEN {Panic}
        ELSE
        LET currentKey == Slice(key, 0, hi)
        IN  IF isAppend(key, nextStart, nextEnd)
            THEN setAnyOrder(d, currentKey, Strs(value))
            ELSE IF nextStart # -1
            THEN LET lo == nextKeyStart(nextStart, nextEnd)
                 IN  IF ~SliceOk(key, lo, Len(key)) THEN {Panic}
                     ELSE UNION {IF inner = Panic THEN {Panic}
                                 ELSE setAnyOrder(d, currentKey, inner) :
                                    inner \in nestedQueryAnyOrder(
                                                 newQueryMap,
                                                 Slice(key, lo, Len(key)), value)}
            ELSE setAnyOrder(d, currentKey, leaf(value))

(***************************************************************************)
(* Numeric-index normalizer                                                *)
(***************************************************************************)
RECURSIVE NormalizeSlicesNumbersIndexes(_)
NormalizeSlicesNumbersIndexes(v) ==
    CASE v.t = "string" -> v
      [] v.t = "[]string" -> v
      [] v.t = "QueryMap" ->
            LET total == Cardinality(DOMAIN v.m)
                keyAreNumbers == Cardinality({k \in DOMAIN v.m : AtoiOk(k)})
                valueKeys == SortKeys(DOMAIN v.m)
            IN  IF total = keyAreNumbers
                THEN AnyList([i \in 1..Len(valueKeys) |-> v.m[valueKeys[i]]])
                ELSE QMap([k \in DOMAIN v.m |->
                              NormalizeSlicesNumbersIndexes(v.m[k])])
      [] v.t = "anyList" ->
            AnyList([i \in 1..Len(v.l) |-> NormalizeSlicesNumbersIndexes(v.l[i])])

\* the argument v of NormalizeSlicesNumbersIndexes(v) as the call leaves it:
\* a map with a key that is no integer has every value replaced by its
\* normalized form (lines 208-210; it is the map that is returned); a map
\* that is folded is only read; the elements of a list are handed to the
\* recursive calls and rewritten by them, the list itself is not assigned to
RECURSIVE normalizedInPlace(_)
normalizedInPlace(v) ==
    CASE v.t = "string" -> v
      [] v.t = "[]string" -> v
      [] v.t = "QueryMap" ->
            IF \A k \in DOMAIN v.m : AtoiOk(k)
            THEN v
            ELSE QMap([k \in DOMAIN v.m |->
                          NormalizeSlicesNumbersIndexes(v.m[k])])
      [] v.t = "anyList" ->
            AnyList([i \in 1..Len(v.l) |-> normalizedInPlace(v.l[i])])

(***************************************************************************)
(* Inputs                                                                  *)
(***************************************************************************)
Range(f) == {f[x] : x \in DOMAIN f}

\* position of k in the sequence ks of distinct keys
IndexOf(ks, k) == CHOOSE i \in 1..Len(ks) : ks[i] = k

\* bracket groups of the raw keys
Groups == {<<"[", "]">>, <<"[", "a", "]">>, <<"[", "0", "]">>, <<"[", "1", "]">>}

\* well-formed raw keys: the name a followed by one or two bracket groups
BracketKeys ==
    {<<"a">> \o g : g \in Groups} \cup {<<"a">> \o g \o h : g, h \in Groups}

\* twenty digits: a number beyond the range of int
TooLong == [i \in 1..20 |-> "2"]

\* a well-formed raw key with three bracket groups, and one whose bracket
\* group is a number that no int holds
DeepKeys ==
    { <<"a", "[", "a", "]", "[", "0", "]", "[", "]">>,
      <<"a", "[">> \o TooLong \o <<"]">> }

\* raw keys without brackets, the empty key among them
PlainKeys == {<<>>, <<"a">>, <<"b">>, <<"0">>, <<"1">>}

\* raw keys with unmatched, reversed, doubled or leading brackets
MalformedKeys ==
    { <<"[", "a">>, <<"a", "[">>, <<"a", "]">>, <<"]">>, <<"]", "[">>,
      <<"a", "[", "[", "a">>, <<"a", "]", "[", "a">>, <<"[", "a", "]">> }

RawKeys == BracketKeys \cup DeepKeys \cup PlainKeys \cup MalformedKeys

\* the values of a query, all distinct: the code never looks into a value
ValuePool == <<"", "1", "2", "3", "4", "5", "6", "7", "8", "9", "10", "11">>

\* the n values of the raw key of rank r (1-based, in ascending key order)
ValuesOf(r, n) == [j \in 1..n |-> ValuePool[(r - 1) * (MaxVals + 1) + j]]

\* url.Values: every raw key of S mapped to a non-empty list of values, of
\* one value or of MaxVals values (the code only asks whether there is one)
QueriesOver(S) ==
    {[k \in S |-> ValuesOf(Cardinality({o \in S : StrLess(o, k)}) + 1, n[k])] :
        n \in [S -> {1, MaxVals}]}

\* the subsets of at most n of the keys ks[from], ks[from + 1], ...
RECURSIVE SubsetsUpTo(_, _, _)
SubsetsUpTo(ks, from, n) ==
    IF n = 0 \/ from > Len(ks) THEN {{}}
    ELSE {{}} \cup UNION {{{ks[i]} \cup T : T \in SubsetsUpTo(ks, i + 1, n - 1)} :
                            i \in from..Len(ks)}

\* the sets of at most n raw keys
KeySets(n) == SubsetsUpTo(SortKeys(RawKeys), 1, n)

\* the queries with at most n raw keys
Queries(n) == UNION {QueriesOver(S) : S \in KeySets(n)}

\* keys of the Objects handed to the normalizer: two integers, a name and
\* a number beyond the range of int
TreeKeys == {<<"1", "0">>, <<"2">>, <<"a">>, TooLong}

SetKeys == {<<"a">>, <<"b">>}

Leaves == {Str("1"), Strs(<<"1", "2">>)}

\* the Object with keys ks[i] mapped to f[i]
MkMap(ks, f) == [k \in Range(ks) |-> f[IndexOf(ks, k)]]

\* the trees with one root over the forest f: a DynamicList of f, and
\* every Object that maps Len(f) keys, in ascending order, to the trees of f
Rooted(f, keys) ==
    {AnyList(f)}
        \cup {QMap(MkMap(SortKeys(S), f)) :
                 S \in {T \in SUBSET keys : Cardinality(T) = Len(f)}}

\* T[m]: all trees of the four shapes with exactly m nodes (m in 1..n) and
\* Object keys in keys; F[s + 1]: all sequences of trees with s nodes in
\* total (s in 0..n-1).  NextTable extends the table for n - 1 to n.
NextTable(prev, n, keys) ==
    LET s == n - 1
        forests ==
            IF s = 0 THEN {<<>>}
            ELSE UNION {{<<t>> \o f : t \in prev.T[m], f \in prev.F[s - m + 1]} :
                           m \in 1..s}
    IN  [T |-> Append(prev.T, (IF n = 1 THEN Leaves ELSE {})
                                  \cup UNION {Rooted(f, keys) : f \in forests}),
         F |-> Append(prev.F, forests)]

RECURSIVE TreeTable(_, _)
TreeTable(n, keys) ==
    IF n = 0 THEN [T |-> <<>>, F |-> <<>>]
    ELSE CHOOSE tbl \in {NextTable(prev, n, keys) : prev \in {TreeTable(n - 1, keys)}} : TRUE

TreesOfSize(n, keys) == TreeTable(n, keys).T[n]

Trees(n, keys) == UNION {UNION {tbl.T[m] : m \in 1..n} : tbl \in {TreeTable(n, keys)}}

\* number of nodes of a tree
RECURSIVE Size(_)
RECURSIVE SizeSum(_)
SizeSum(l) == IF l = <<>> THEN 0 ELSE Size(Head(l)) + SizeSum(Tail(l))

Size(v) ==
    CASE v.t = "string" -> 1
      [] v.t = "[]string" -> 1
      [] v.t = "anyList" -> 1 + SizeSum(v.l)
      [] v.t = "QueryMap" ->
            LET ks == SortKeys(DOMAIN v.m)
            IN  1 + SizeSum([i \in 1..Len(ks) |-> v.m[ks[i]]])

None == [t |-> "none"]

(***************************************************************************)
(* FromValues (FromURL is FromValues on URL.Query()), one step per loop    *)
(* iteration                                                               *)
(***************************************************************************)
Init ==
    /\ pc = "start"
    /\ \E S \in KeySets(MaxKeys) : urlQuery \in QueriesOver(S)
    /\ urlQueryKeys = <<>>
    /\ idx = 0
    /\ data = newQueryMap
    /\ todo = {}
    /\ arg = None
    /\ ret = None

\* data := newQueryMap(); urlQueryKeys := maps.Keys(urlQuery); slices.Sort
Start ==
    /\ pc = "start"
    /\ data' = newQueryMap
    /\ \E keys \in mapsKeys(urlQuery) : urlQueryKeys' = slicesSort(keys)
    /\ idx' = 1
    /\ todo' = {}
    /\ pc' = IF DOMAIN urlQuery = {} THEN "normalize" ELSE "ingest"
    /\ UNCHANGED <<urlQuery, arg, ret>>

\* one iteration of "for _, key := range urlQueryKeys": nestedQuery(data,
\* key, urlQuery[key]), the maps it merges visited in any order; a panic
\* ends the call; after the last key the range over data begins
Ingest ==
    /\ pc = "ingest"
    /\ idx <= Len(urlQueryKeys)
    /\ \E r \in nestedQueryAnyOrder(data, urlQueryKeys[idx],
                                     urlQuery[urlQueryKeys[idx]]) :
           IF r = Panic
           THEN /\ pc' = "panic"
                /\ UNCHANGED <<data, idx, todo>>
           ELSE /\ data' = r
                /\ idx' = idx + 1
                /\ IF idx = Len(urlQueryKeys)
                   THEN pc' = "normalize" /\ todo' = DOMAIN r.m
                   ELSE pc' = "ingest" /\ todo' = {}
    /\ UNCHANGED <<urlQuery, urlQueryKeys, arg, ret>>

\* one iteration of "for k, v := range data": data[k] =
\* NormalizeSlicesNumbersIndexes(v); the range visits the keys in any order
NormalizeEntry ==
    /\ pc = "normalize"
    /\ \E k \in todo :
          /\ data' = QMap(Put(data.m, k, NormalizeSlicesNumbersIndexes(data.m[k])))
          /\ todo' = todo \ {k}
    /\ UNCHANGED <<pc, urlQuery, urlQueryKeys, idx, arg, ret>>

\* a plausible slip: the root itself is handed to the normalizer
ReturnNormalizedRoot ==
    /\ pc = "normalize"
    /\ todo = {}
    /\ pc' = "done"
    /\ ret' = NormalizeSlicesNumbersIndexes(data)
    /\ UNCHANGED <<urlQuery, urlQueryKeys, idx, data, todo, arg>>

\* return data
Return ==
    /\ pc = "normalize"
    /\ todo = {}
    /\ pc' = "done"
    /\ ret' = data
    /\ UNCHANGED <<urlQuery, urlQueryKeys, idx, data, todo, arg>>

Next == Start \/ Ingest \/ NormalizeEntry \/ Return

Spec == Init /\ [][Next]_vars

(***************************************************************************)
(* FromURLStringToStruct: url.Parse, FromURL, ToStruct.  url.Parse and the *)
(* mapstructure decoder are libraries: a URL string is modelled by what    *)
(* url.Parse makes of it (an error, or a URL with its query), a decoding   *)
(* by its outcome (an error or none), taken nondeterministically           *)
(***************************************************************************)
\* the error value nil
Nil == "nil"

\* decoder.Decode has not been called
NotAttempted == "not attempted"

\* errors of url.Parse
ParseErrors ==
    {"parse \":\": missing protocol scheme",
     "parse \"http://a:b\": invalid port \":b\" after host"}

\* errors of decoder.Decode
DecodeErrors ==
    {"1 error(s) decoding:\n\n* name: unsupported type: complex64",
     "2 error(s) decoding:\n\n* age: unsupported type: complex64\n* name: unsupported type: complex64"}

\* URL strings that url.Parse rejects with error e
BadURL(e) == [err |-> e, query |-> <<>>]

\* URL strings that url.Parse accepts, with URL.Query() = q
GoodURL(q) == [err |-> Nil, query |-> q]

\* the record the decoder fills from the tree m
Decoded(m) == [t |-> "record", from |-> m]

\* a plausible slip: the error of the decoder is dropped
ToStructIgnoresError(m, decodeErr) == [result |-> Decoded(m), err |-> Nil]

\* ToStruct(m), decodeErr being what decoder.Decode(m) returned
ToStruct(m, decodeErr) ==
    IF decodeErr # Nil
    THEN [result |-> None, err |-> decodeErr]
    ELSE [result |-> Decoded(m), err |-> Nil]

InitStruct ==
    /\ pc = "parseURL"
    /\ \/ \E e \in ParseErrors : arg = [URL |-> BadURL(e), decodeErr |-> NotAttempted]
       \/ \E S \in KeySets(MaxKeys) : \E q \in QueriesOver(S) :
              arg = [URL |-> GoodURL(q), decodeErr |-> NotAttempted]
    /\ urlQuery = <<>>
    /\ urlQueryKeys = <<>>
    /\ idx = 0
    /\ data = newQueryMap
    /\ todo = {}
    /\ ret = None

\* parsedUrl, err := url.Parse(URL); if err != nil { return nil, err }
ParseURLFails ==
    /\ pc = "parseURL"
    /\ arg.URL.err # Nil
    /\ ret' = [result |-> None, err |-> arg.URL.err]
    /\ pc' = "returned"
    /\ UNCHANGED <<urlQuery, urlQueryKeys, idx, data, todo, arg>>

\* url.Parse succeeded: FromURLToStruct(parsedUrl) calls FromURL(parsedUrl)
ParseURLOk ==
    /\ pc = "parseURL"
    /\ arg.URL.err = Nil
    /\ urlQuery' = arg.URL.query
    /\ pc' = "start"
    /\ UNCHANGED <<urlQueryKeys, idx, data, todo, arg, ret>>

\* FromURL returned the tree ret: ToStruct decodes it, with any outcome of
\* decoder.Decode, and its results are returned as they are
ToStructCall ==
    /\ pc = "done"
    /\ \E decodeErr \in DecodeErrors \cup {Nil} :
          /\ ret' = ToStruct(ret, decodeErr)
          /\ arg' = [arg EXCEPT !.decodeErr = decodeErr]
    /\ pc' = "returned"
    /\ UNCHANGED <<urlQuery, urlQueryKeys, idx, data, todo>>

NextStruct ==
    \/ ParseURLFails
    \/ ParseURLOk
    \/ Start
    \/ Ingest
    \/ NormalizeEntry
    \/ Return
    \/ ToStructCall

SpecStruct == InitStruct /\ [][NextStruct]_vars

(***************************************************************************)
(* One call of QueryMap.set: q.set(key, untypedValue) for every receiver q *)
(* and incoming value that have at most MaxSetNodes nodes together         *)
(***************************************************************************)
InitSet ==
    /\ pc = "set"
    /\ \E tbl \in {TreeTable(MaxSetNodes - 1, SetKeys)} :
           \E n \in 1..(MaxSetNodes - 1) :
           \E m \in 1..(MaxSetNodes - n) :
           \E q \in {r \in tbl.T[n] : r.t = "QueryMap"} :
           \E k \in SetKeys :
           \E i \in tbl.T[m] :
              arg = [q |-> q, key |-> k, untypedValue |-> i]
    /\ ret = None
    /\ urlQuery = <<>>
    /\ urlQueryKeys = <<>>
    /\ idx = 0
    /\ data = newQueryMap
    /\ todo = {}

SetCall ==
    /\ pc = "set"
    /\ ret' = set(arg.q, arg.key, arg.untypedValue)
    /\ pc' = "setDone"
    /\ UNCHANGED <<urlQuery, urlQueryKeys, idx, data, todo, arg>>

NextSet == SetCall

SpecSet == InitSet /\ [][NextSet]_vars

(***************************************************************************)
(* NormalizeSlicesNumbersIndexes, applied once and then to its own result. *)
(* arg is the argument of the latest call as that call left it, ret the    *)
(* value it returned                                                       *)
(***************************************************************************)
InitNormalize ==
    /\ pc = "normalizeCall"
    /\ arg \in Trees(MaxNodes, TreeKeys)
    /\ ret = None
    /\ urlQuery = <<>>
    /\ urlQueryKeys = <<>>
    /\ idx = 0
    /\ data = newQueryMap
    /\ todo = {}

\* ret := NormalizeSlicesNumbersIndexes(arg); the call rewrites the maps of
\* its argument
NormalizeCall ==
    /\ pc = "normalizeCall"
    /\ ret' = NormalizeSlicesNumbersIndexes(arg)
    /\ arg' = normalizedInPlace(arg)
    /\ pc' = "normalizedOnce"
    /\ UNCHANGED <<urlQuery, urlQueryKeys, idx, data, todo>>

\* the result is handed to the normalizer again: it is the argument of the
\* second call, which rewrites its maps
NormalizeAgain ==
    /\ pc = "normalizedOnce"
    /\ ret' = NormalizeSlicesNumbersIndexes(ret)
    /\ arg' = normalizedInPlace(ret)
    /\ pc' = "normalizedTwice"
    /\ UNCHANGED <<urlQuery, urlQueryKeys, idx, data, todo>>

NextNormalize == NormalizeCall \/ NormalizeAgain

SpecNormalize == InitNormalize /\ [][NextNormalize]_vars

(***************************************************************************)
(* One top-level call nestedQuery(newQueryMap(), key, value), one step per *)
(* activation: arg is the running activation (its data, key and value),    *)
(* arg.stack the suspended callers (their data and currentKey), innermost  *)
(* last; arg.calls and arg.sets count the calls of nestedQuery and of set   *)
(***************************************************************************)
\* the bracket groups of the keys parsed on their own
ParseGroups == Groups \cup {<<"[", "b", "]">>}

\* the sequences of at most n bracket groups, concatenated
RECURSIVE GroupSuffixes(_)
GroupSuffixes(n) ==
    IF n = 0 THEN {<<>>}
    ELSE LET P == GroupSuffixes(n - 1)
         IN  P \cup {g \o r : g \in ParseGroups, r \in P}

\* the name a followed by at most n bracket groups, and the malformed keys
ParseKeys(n) == {<<"a">> \o r : r \in GroupSuffixes(n)} \cup MalformedKeys

InitParse ==
    /\ pc = "call"
    /\ \E k \in ParseKeys(MaxDepth) : \E n \in {1, MaxVals} :
          /\ urlQuery = (k :> ValuesOf(1, n))
          /\ urlQueryKeys = <<k>>
          /\ arg = [data |-> newQueryMap, key |-> k, value |-> ValuesOf(1, n),
                    stack |-> <<>>, calls |-> 1, sets |-> 0]
    /\ ret = None
    /\ idx = 0
    /\ data = newQueryMap
    /\ todo = {}

\* a slice expression of the running activation is out of range
ParsePanics ==
    LET nextStart == IndexRune(arg.key, "[")
        nextEnd == IndexRune(arg.key, "]")
    IN  \/ ~SliceOk(arg.key, 0, currentKeyEnd(arg.key, nextStart, nextEnd))
        \/ /\ ~isAppend(arg.key, nextStart, nextEnd)
           /\ nextStart # -1
           /\ ~SliceOk(arg.key, nextKeyStart(nextStart, nextEnd), Len(arg.key))

\* currentKey of the running activation (lines 101-111)
ParseCurrentKey ==
    Slice(arg.key, 0,
          currentKeyEnd(arg.key, IndexRune(arg.key, "["), IndexRune(arg.key, "]")))

\* key[:hi] or key[lo:] panics
CallPanic ==
    /\ pc = "call"
    /\ ParsePanics
    /\ pc' = "panic"
    /\ UNCHANGED <<urlQuery, urlQueryKeys, idx, data, todo, arg, ret>>

\* line 116: return data.set(currentKey, value)
CallAppend ==
    /\ pc = "call"
    /\ ~ParsePanics
    /\ isAppend(arg.key, IndexRune(arg.key, "["), IndexRune(arg.key, "]"))
    /\ ret' = set(arg.data, ParseCurrentKey, Strs(arg.value))
    /\ arg' = [arg EXCEPT !.sets = @ + 1]
    /\ pc' = "return"
    /\ UNCHANGED <<urlQuery, urlQueryKeys, idx, data, todo>>

\* lines 119-127, up to the recursive call: the caller is suspended and
\* nestedQuery(newQueryMap(), nextKey, value) begins
CallRecurse ==
    /\ pc = "call"
    /\ ~ParsePanics
    /\ LET nextStart == IndexRune(arg.key, "[")
           nextEnd == IndexRune(arg.key, "]")
       IN  /\ ~isAppend(arg.key, nextStart, nextEnd)
           /\ nextStart # -1
           /\ arg' = [arg EXCEPT
                        !.stack = Append(@, [data |-> arg.data,
                                             currentKey |-> ParseCurrentKey]),
                        !.data = newQueryMap,
                        !.key = Slice(arg.key, nextKeyStart(nextStart, nextEnd),
                                      Len(arg.key)),
                        !.calls = @ + 1]
    /\ UNCHANGED <<pc, urlQuery, urlQueryKeys, idx, data, todo, ret>>

\* lines 129-132: no bracket is left, the leaf is stored
CallLeaf ==
    /\ pc = "call"
    /\ ~ParsePanics
    /\ LET nextStart == IndexRune(arg.key, "[")
           nextEnd == IndexRune(arg.key, "]")
       IN  /\ ~isAppend(arg.key, nextStart, nextEnd)
           /\ nextStart = -1
    /\ ret' = set(arg.data, ParseCurrentKey, leaf(arg.value))
    /\ arg' = [arg EXCEPT !.sets = @ + 1]
    /\ pc' = "return"
    /\ UNCHANGED <<urlQuery, urlQueryKeys, idx, data, todo>>

\* line 127, after the recursive call returned: data.set(currentKey, result)
\* in the innermost suspended caller
ReturnToCaller ==
    /\ pc = "return"
    /\ arg.stack # <<>>
    /\ LET caller == arg.stack[Len(arg.stack)]
       IN  /\ ret' = set(caller.data, caller.currentKey, ret)
           /\ arg' = [arg EXCEPT !.stack = SubSeq(@, 1, Len(@) - 1),
                                 !.sets = @ + 1]
    /\ UNCHANGED <<pc, urlQuery, urlQueryKeys, idx, data, todo>>

\* the top-level call returns
ReturnToTop ==
    /\ pc = "return"
    /\ arg.stack = <<>>
    /\ pc' = "parsed"
    /\ UNCHANGED <<urlQuery, urlQueryKeys, idx, data, todo, arg, ret>>

NextParse ==
    CallPanic \/ CallAppend \/ CallRecurse \/ CallLeaf \/ ReturnToCaller \/ ReturnToTop

SpecParse == InitParse /\ [][NextParse]_vars

(***************************************************************************)
(* A call of QueryMap.set on any receiver, or a run of FromValues          *)
(***************************************************************************)
InitFrame == InitSet \/ Init

NextFrame == SetCall \/ Start \/ Ingest \/ NormalizeEntry \/ Return

SpecFrame == InitFrame /\ [][NextFrame]_vars

(***************************************************************************)
(* Properties of the merge engine (checked under SpecSet)                  *)
(***************************************************************************)
IsFlat(x) == x.t \in {"string", "[]string"}

\* the texts of a Scalar or a ScalarList
Texts(x) == IF x.t = "string" THEN <<x.s>> ELSE x.ss

\* the items a value contributes to a DynamicList
Items(x) ==
    CASE x.t = "string" -> <<x>>
      [] x.t = "[]string" -> [j \in 1..Len(x.ss) |-> [t |-> "string", s |-> x.ss[j]]]
      [] x.t = "anyList" -> x.l
      [] x.t = "QueryMap" -> <<x>>

\* the list the merge lattice of the specification gives for e and i
LatticeList(e, i) ==
    IF IsFlat(e) /\ IsFlat(i)
    THEN [t |-> "[]string", ss |-> Texts(e) \o Texts(i)]
    ELSE [t |-> "anyList", l |-> Items(e) \o Items(i)]

\* the merge lattice of the specification, Object+Object included
RECURSIVE Lattice(_, _)
Lattice(e, i) ==
    IF e.t = "QueryMap" /\ i.t = "QueryMap"
    THEN [t |-> "QueryMap",
          m |-> [k \in (DOMAIN e.m) \cup (DOMAIN i.m) |->
                    IF k \notin DOMAIN i.m THEN e.m[k]
                    ELSE IF k \notin DOMAIN e.m THEN i.m[k]
                    ELSE Lattice(e.m[k], i.m[k])]]
    ELSE LatticeList(e, i)

SetReturned == pc = "setDone"

KeyPresent == arg.key \in DOMAIN arg.q.m

BothObjects ==
    /\ KeyPresent
    /\ arg.q.m[arg.key].t = "QueryMap"
    /\ arg.untypedValue.t = "QueryMap"

\* C2: set(key, i) stores i as-is at an absent key; at a key holding e it
\* stores, for every pair of shapes but Object+Object, the list of e's
\* elements followed by i's elements, a ScalarList when both sides are
\* Scalar or ScalarList and a DynamicList otherwise.
C2_MergeLattice ==
    SetReturned =>
        /\ ret.t = "QueryMap"
        /\ arg.key \in DOMAIN ret.m
        /\ ~KeyPresent => ret.m[arg.key] = arg.untypedValue
        /\ (KeyPresent /\ ~BothObjects) =>
               ret.m[arg.key] = LatticeList(arg.q.m[arg.key], arg.untypedValue)

\* a ScalarList met a DynamicList that is not empty
C2_Witness ==
    /\ SetReturned
    /\ KeyPresent
    /\ arg.q.m[arg.key].t = "[]string"
    /\ arg.untypedValue.t = "anyList"
    /\ arg.untypedValue.l # <<>>
    /\ ret.m[arg.key].t = "anyList"
    /\ Len(ret.m[arg.key].l) = 3

\* C3: set(key, i) with Objects e at key and i leaves an Object at key whose
\* keys are those of e and of i: a key of e alone keeps its value, a key of
\* i alone gets i's value, a key of both holds the merge of the two values,
\* recursively at every depth.
C3_DeepMerge ==
    (SetReturned /\ BothObjects) =>
        /\ ret.m[arg.key].t = "QueryMap"
        /\ DOMAIN ret.m[arg.key].m =
               (DOMAIN arg.q.m[arg.key].m) \cup (DOMAIN arg.untypedValue.m)
        /\ ret.m[arg.key] = Lattice(arg.q.m[arg.key], arg.untypedValue)

\* two Objects share a key whose values are Objects again, the incoming one
\* not empty: the merge recursed twice
C3_Witness ==
    /\ SetReturned
    /\ BothObjects
    /\ \E k \in (DOMAIN arg.q.m[arg.key].m) \cap (DOMAIN arg.untypedValue.m) :
          /\ arg.q.m[arg.key].m[k].t = "QueryMap"
          /\ arg.untypedValue.m[k].t = "QueryMap"
          /\ DOMAIN arg.untypedValue.m[k].m # {}
          /\ ret.m[arg.key].m[k].t = "QueryMap"

(***************************************************************************)
(* Properties of the normalizer (checked under SpecNormalize)              *)
(***************************************************************************)
\* C4: NormalizeSlicesNumbersIndexes is idempotent: normalizing the result
\* of a normalization returns the tree that result was before the call.
C4_Idempotent ==
    [][(pc = "normalizedOnce" /\ pc' = "normalizedTwice") => ret' = ret]_vars

IntegerKeyed(v) ==
    /\ v.t = "QueryMap"
    /\ DOMAIN v.m # {}
    /\ \A k \in DOMAIN v.m : AtoiOk(k)

\* position of key k among the keys of Object v compared as text
TextRank(v, k) == 1 + Cardinality({o \in DOMAIN v.m : StrLess(o, k)})

\* the argument of the call that is about to be made
CallArgument == IF pc = "normalizeCall" THEN arg ELSE ret

\* a call of the normalizer is made in this step
NormalizeStep ==
    \/ pc = "normalizeCall" /\ pc' = "normalizedOnce"
    \/ pc = "normalizedOnce" /\ pc' = "normalizedTwice"

\* C6: the normalizer turns a non-empty Object whose keys are all integer
\* literals into a DynamicList with exactly one element per key, the values
\* in ascending order of the keys compared as text, whether or not the keys
\* are contiguous or start at 0.
C6_FoldedInTextOrder ==
    [][(NormalizeStep /\ IntegerKeyed(CallArgument)) =>
          /\ ret'.t = "anyList"
          /\ Len(ret'.l) = Cardinality(DOMAIN CallArgument.m)
          /\ \A k \in DOMAIN CallArgument.m :
                 ret'.l[TextRank(CallArgument, k)] = CallArgument.m[k]]_vars

\* an Object with keys 10 and 2 and different values was folded, the value
\* at 10 first
C6_Witness ==
    /\ pc = "normalizedOnce"
    /\ arg.t = "QueryMap"
    /\ DOMAIN arg.m = {<<"1", "0">>, <<"2">>}
    /\ arg.m[<<"1", "0">>] # arg.m[<<"2">>]
    /\ ret = [t |-> "anyList", l |-> <<arg.m[<<"1", "0">>], arg.m[<<"2">>]>>]

\* C7: the normalizer leaves an Object that is empty or has a key that is
\* no integer literal as an Object with the same keys, every value
\* replaced by its normalized form.
C7_ObjectKept ==
    [][(/\ NormalizeStep
        /\ CallArgument.t = "QueryMap"
        /\ \/ DOMAIN CallArgument.m = {}
           \/ \E k \in DOMAIN CallArgument.m : ~AtoiOk(k)) =>
          /\ ret'.t = "QueryMap"
          /\ DOMAIN ret'.m = DOMAIN CallArgument.m
          /\ \A k \in DOMAIN CallArgument.m :
                 ret'.m[k] = NormalizeSlicesNumbersIndexes(CallArgument.m[k])]_vars

(***************************************************************************)
(* Properties of FromValues (checked under Spec)                           *)
(***************************************************************************)
\* C1: FromValues completes on every mapping of raw keys to non-empty value
\* lists: no call of nestedQuery aborts, at the top level or in recursion.
C1_NeverAborts == pc # "panic"

\* v is, or holds at some depth, a non-empty Object with only integer keys
RECURSIVE HasIntegerKeyedObject(_)
HasIntegerKeyedObject(v) ==
    CASE v.t = "QueryMap" ->
            \/ DOMAIN v.m # {} /\ \A k \in DOMAIN v.m : AtoiOk(k)
            \/ \E k \in DOMAIN v.m : HasIntegerKeyedObject(v.m[k])
      [] v.t = "anyList" -> \E j \in 1..Len(v.l) : HasIntegerKeyedObject(v.l[j])
      [] OTHER -> FALSE

\* C5: in the returned tree no Object below the root, at any depth, is
\* non-empty with every key an integer literal.
C5_AllFolded ==
    pc = "done" => \A k \in DOMAIN ret.m : ~HasIntegerKeyedObject(ret.m[k])

\* no bracket character in s
NoBrackets(s) == \A j \in 1..Len(s) : s[j] \notin {"[", "]"}

\* the name of a raw key: the text before its first opening bracket
NameOf(k) == IF IndexRune(k, "[") = -1 THEN k ELSE Slice(k, 0, IndexRune(k, "["))

\* the text after the name
SuffixOf(k) == Slice(k, Len(NameOf(k)), Len(k))

\* r is a sequence of bracket groups "[" inner "]", inner without brackets
RECURSIVE IsGroups(_)
IsGroups(r) ==
    \/ r = <<>>
    \/ /\ r[1] = "["
       /\ IndexRune(r, "]") # -1
       /\ NoBrackets(Slice(r, 1, IndexRune(r, "]")))
       /\ IsGroups(Slice(r, IndexRune(r, "]") + 1, Len(r)))

\* the inner texts of the bracket groups of r
RECURSIVE GroupsOf(_)
GroupsOf(r) ==
    IF r = <<>> THEN <<>>
    ELSE <<Slice(r, 1, IndexRune(r, "]"))>>
             \o GroupsOf(Slice(r, IndexRune(r, "]") + 1, Len(r)))

\* the grammar of the specification: key := name ( "[" inner "]" )*
WellFormed(k) == NoBrackets(NameOf(k)) /\ IsGroups(SuffixOf(k))

\* a well-formed key whose last bracket group is empty
EndsInAppend(k) ==
    LET g == GroupsOf(SuffixOf(k)) IN g # <<>> /\ g[Len(g)] = <<>>

\* the path of a well-formed key: all segments, but for a final append marker
PathOf(k) ==
    LET g == GroupsOf(SuffixOf(k))
    IN  <<NameOf(k)>> \o (IF EndsInAppend(k) THEN SubSeq(g, 1, Len(g) - 1) ELSE g)

\* the leaf of a well-formed key carrying the values vs
LeafOf(k, vs) ==
    IF EndsInAppend(k) \/ Len(vs) # 1
    THEN [t |-> "[]string", ss |-> vs]
    ELSE [t |-> "string", s |-> vs[1]]

\* single-key Objects nested along path, ending in v
RECURSIVE Chain(_, _)
Chain(path, v) ==
    IF path = <<>> THEN v
    ELSE [t |-> "QueryMap", m |-> (Head(path) :> Chain(Tail(path), v))]

\* the value at path below v, None when the path leaves the tree
RECURSIVE Lookup(_, _)
Lookup(v, path) ==
    IF path = <<>> THEN v
    ELSE IF v.t = "QueryMap" /\ Head(path) \in DOMAIN v.m
    THEN Lookup(v.m[Head(path)], Tail(path))
    ELSE None

\* the first raw key has just been ingested into the empty root
AfterFirstKey ==
    /\ idx = 2
    /\ pc = "ingest" \/ (pc = "normalize" /\ todo = DOMAIN data.m)

FirstKey == urlQueryKeys[1]

\* C8: a well-formed raw key that ends in an empty bracket group, ingested
\* into an empty Object, stores its whole value list, in order, as a
\* ScalarList at the path of the preceding segments, also when the list has
\* one value.
C8_AppendMarker ==
    (AfterFirstKey /\ WellFormed(FirstKey) /\ EndsInAppend(FirstKey)) =>
        /\ Lookup(data, PathOf(FirstKey)) = [t |-> "[]string", ss |-> urlQuery[FirstKey]]
        /\ data = Chain(PathOf(FirstKey), [t |-> "[]string", ss |-> urlQuery[FirstKey]])

\* a[0][] with a single value was ingested and gave a one-element ScalarList
C8_Witness ==
    /\ AfterFirstKey
    /\ FirstKey = <<"a", "[", "0", "]", "[", "]">>
    /\ Len(urlQuery[FirstKey]) = 1
    /\ Lookup(data, <<<<"a">>, <<"0">>>>) = [t |-> "[]string", ss |-> urlQuery[FirstKey]]

\* C9: an empty bracket group that is not the last segment of a well-formed
\* key gets no list semantics: the Object at that level has the single key
\* "" and below it the rest of the key is parsed as further segments.
C9_MidAppendIsEmptyKey ==
    (AfterFirstKey /\ WellFormed(FirstKey)) =>
        LET g == GroupsOf(SuffixOf(FirstKey))
            path == PathOf(FirstKey)
        IN  \A j \in 1..(Len(g) - 1) :
                g[j] = <<>> =>
                    LET node == Lookup(data, SubSeq(path, 1, j))
                    IN  /\ node.t = "QueryMap"
                        /\ DOMAIN node.m = {<<>>}
                        /\ node.m[<<>>] =
                               Chain(SubSeq(path, j + 2, Len(path)),
                                     LeafOf(FirstKey, urlQuery[FirstKey]))

\* a[][a] with one value was ingested: {"a": {"": {"a": value}}}
C9_Witness ==
    /\ AfterFirstKey
    /\ FirstKey = <<"a", "[", "]", "[", "a", "]">>
    /\ Len(urlQuery[FirstKey]) = 1
    /\ data = Chain(<<<<"a">>, <<>>, <<"a">>>>,
                    [t |-> "string", s |-> urlQuery[FirstKey][1]])

\* the raw key ends in the two characters of an append marker
EndsInMarker(k) == Len(k) >= 2 /\ k[Len(k) - 1] = "[" /\ k[Len(k)] = "]"

\* the leaf a value list is stored as when no append marker asks for a list
ScalarOrList(vs) ==
    IF Len(vs) = 1 THEN [t |-> "string", s |-> vs[1]]
    ELSE [t |-> "[]string", ss |-> vs]

\* the value at the end of a chain of single-key Objects
RECURSIVE ChainLeaf(_)
ChainLeaf(v) ==
    IF v.t = "QueryMap" /\ Cardinality(DOMAIN v.m) = 1
    THEN ChainLeaf(v.m[CHOOSE k \in DOMAIN v.m : TRUE])
    ELSE v

\* C10: for every raw key that does not end in an append marker, ingested
\* into an empty Object, the leaf at the end of the key's path is a Scalar
\* when the key carries one value and a ScalarList of all values in order
\* when it carries more; for a key of the grammar the whole tree is the
\* chain of its segments ending in that leaf; a query of bracket-free keys
\* returns the Object of exactly those keys and leaves.
C10_ScalarOrList ==
    /\ (AfterFirstKey /\ ~EndsInMarker(FirstKey)) =>
           ChainLeaf(data) = ScalarOrList(urlQuery[FirstKey])
    /\ (AfterFirstKey /\ WellFormed(FirstKey) /\ ~EndsInAppend(FirstKey)) =>
           data = Chain(PathOf(FirstKey), ScalarOrList(urlQuery[FirstKey]))
    /\ (pc = "done" /\ \A k \in DOMAIN urlQuery : NoBrackets(k)) =>
           /\ DOMAIN ret.m = DOMAIN urlQuery
           /\ \A k \in DOMAIN urlQuery : ret.m[k] = ScalarOrList(urlQuery[k])

\* the raw key "]" is the only one whose leaf is a list of one value: every
\* other key without a final append marker, malformed ones included, stores
\* a Scalar for one value and the ScalarList of all values for more
LoneClosingBracketOnly ==
    (AfterFirstKey /\ ~EndsInMarker(FirstKey) /\ FirstKey # <<"]">>) =>
        ChainLeaf(data) = ScalarOrList(urlQuery[FirstKey])

\* the raw key "]" with one value was ingested and stored as a list under ""
LoneClosingBracketList ==
    /\ AfterFirstKey
    /\ FirstKey = <<"]">>
    /\ Len(urlQuery[FirstKey]) = 1
    /\ data = Chain(<<<<>>>>, [t |-> "[]string", ss |-> urlQuery[FirstKey]])

\* a[a] with two values was ingested and its leaf is the list of both
C10_Witness ==
    /\ AfterFirstKey
    /\ FirstKey = <<"a", "[", "a", "]">>
    /\ Len(urlQuery[FirstKey]) = 2
    /\ Lookup(data, <<<<"a">>, <<"a">>>>) = [t |-> "[]string", ss |-> urlQuery[FirstKey]]

(***************************************************************************)
(* Properties of one call of nestedQuery (checked under SpecParse)         *)
(***************************************************************************)
\* the step-by-step call and the function nestedQuery agree
ParseAgrees ==
    /\ pc = "parsed" => ret = nestedQuery(newQueryMap, FirstKey, urlQuery[FirstKey])
    /\ pc = "panic" => nestedQuery(newQueryMap, FirstKey, urlQuery[FirstKey]) = Panic

\* a well-formed key whose bracket groups are names: not empty, no integer
NamedSegments(k) ==
    /\ WellFormed(k)
    /\ \A j \in 1..Len(GroupsOf(SuffixOf(k))) :
          /\ GroupsOf(SuffixOf(k))[j] # <<>>
          /\ ~AtoiOk(GroupsOf(SuffixOf(k))[j])

\* C11: nestedQuery of a well-formed key name[s1]...[sn] with non-empty,
\* non-numeric segments and a single value v into an empty Object returns
\* the chain of n+1 single-key Objects keyed name, s1, ..., sn that ends in
\* the Scalar v, for every n; it is built by n+1 calls of nestedQuery (n of
\* them recursive) and n+1 calls of set, one per level.
C11_DeepChain ==
    (/\ pc = "parsed"
     /\ NamedSegments(FirstKey)
     /\ Len(urlQuery[FirstKey]) = 1) =>
        /\ ret = Chain(<<NameOf(FirstKey)>> \o GroupsOf(SuffixOf(FirstKey)),
                       [t |-> "string", s |-> urlQuery[FirstKey][1]])
        /\ arg.calls = Len(GroupsOf(SuffixOf(FirstKey))) + 1
        /\ arg.sets = Len(GroupsOf(SuffixOf(FirstKey))) + 1

\* a[a][b][a] with one value was parsed in four calls into four Objects
C11_Witness ==
    /\ pc = "parsed"
    /\ FirstKey = <<"a", "[", "a", "]", "[", "b", "]", "[", "a", "]">>
    /\ Len(urlQuery[FirstKey]) = 1
    /\ arg.calls = 4
    /\ ret = Chain(<<<<"a">>, <<"a">>, <<"b">>, <<"a">>>>,
                   [t |-> "string", s |-> urlQuery[FirstKey][1]])

(***************************************************************************)
(* Properties of the order of ingestion (checked under Spec)               *)
(***************************************************************************)
\* every raw key has been ingested and nothing has been normalized yet
AfterLastKey ==
    /\ pc = "normalize"
    /\ idx = Len(urlQueryKeys) + 1
    /\ todo = DOMAIN data.m

\* C12: the raw keys are ingested in ascending order of their text, and the
\* key that sorts first is the existing side of a merge: a bare key a with
\* values V and the key a[] with values W give the ScalarList V followed by
\* W at a; the same holds at every depth for a key k and the key k[].
C12_SortedIngestion ==
    /\ pc # "start" =>
           /\ {urlQueryKeys[i] : i \in 1..Len(urlQueryKeys)} = DOMAIN urlQuery
           /\ \A i, j \in 1..Len(urlQueryKeys) :
                  i < j => StrLess(urlQueryKeys[i], urlQueryKeys[j])
    /\ (pc = "done" /\ DOMAIN urlQuery = {<<"a">>, <<"a", "[", "]">>}) =>
           ret = [t |-> "QueryMap",
                  m |-> (<<"a">> :> [t |-> "[]string",
                                     ss |-> urlQuery[<<"a">>]
                                                \o urlQuery[<<"a", "[", "]">>]])]
    /\ (AfterLastKey /\ Len(urlQueryKeys) = 2) =>
           \A k \in DOMAIN urlQuery :
               (/\ WellFormed(k)
                /\ ~EndsInAppend(k)
                /\ k \o <<"[", "]">> \in DOMAIN urlQuery) =>
                   data = Chain(PathOf(k),
                                [t |-> "[]string",
                                 ss |-> urlQuery[k] \o urlQuery[k \o <<"[", "]">>]])

\* a with one value and a[] with two were merged into a list of three
C12_Witness ==
    /\ pc = "done"
    /\ DOMAIN urlQuery = {<<"a">>, <<"a", "[", "]">>}
    /\ Len(urlQuery[<<"a">>]) = 1
    /\ Len(urlQuery[<<"a", "[", "]">>]) = 2
    /\ Len(ret.m[<<"a">>].ss) = 3
    /\ ret.m[<<"a">>].ss[1] = urlQuery[<<"a">>][1]

\* the tree FromValues builds when every map is visited in ascending order
RECURSIVE IngestAll(_, _, _)
IngestAll(d, keys, query) ==
    IF keys = <<>> \/ d = Panic THEN d
    ELSE IngestAll(nestedQuery(d, Head(keys), query[Head(keys)]), Tail(keys), query)

TreeOf(query) ==
    LET d == IngestAll(newQueryMap, SortKeys(DOMAIN query), query)
    IN  IF d = Panic THEN Panic
        ELSE [t |-> "QueryMap",
              m |-> [k \in DOMAIN d.m |-> NormalizeSlicesNumbersIndexes(d.m[k])]]

\* C13: the tree FromValues returns is a function of the input mapping
\* alone: whatever order maps.Keys lists the raw keys in, whatever order
\* the Object+Object merge visits the incoming keys in and whatever order
\* the normalizing loop visits the root's keys in, the run returns the one
\* tree that the mapping determines.
C13_Deterministic ==
    /\ pc = "done" => ret = TreeOf(urlQuery)
    /\ (pc = "normalize" /\ todo = {}) => data = TreeOf(urlQuery)

\* a[0] and a[a] were merged Object into Object and the result returned
C13_Witness ==
    /\ pc = "done"
    /\ DOMAIN urlQuery = {<<"a", "[", "0", "]">>, <<"a", "[", "a", "]">>}
    /\ ret.m[<<"a">>].t = "QueryMap"
    /\ DOMAIN ret.m[<<"a">>].m = {<<"0">>, <<"a">>}

\* a call of set gives one result whatever order line 88 visits the
\* incoming keys in (checked under SpecSet, where incoming maps have
\* several keys)
SetOrderIndependent ==
    SetReturned => setAnyOrder(arg.q, arg.key, arg.untypedValue) = {ret}

\* C14: the root FromValues returns is an Object: a mapping without keys
\* gives the empty Object, and a mapping whose raw keys are all integer
\* literals gives the Object of those keys, not a list.
C14_RootIsObject ==
    pc = "done" =>
        /\ ret.t = "QueryMap"
        /\ DOMAIN urlQuery = {} => DOMAIN ret.m = {}
        /\ (\A k \in DOMAIN urlQuery : AtoiOk(k)) =>
               /\ DOMAIN ret.m = DOMAIN urlQuery
               /\ \A k \in DOMAIN urlQuery :
                      ret.m[k] = IF Len(urlQuery[k]) = 1
                                 THEN [t |-> "string", s |-> urlQuery[k][1]]
                                 ELSE [t |-> "[]string", ss |-> urlQuery[k]]

\* the raw keys 0 and 1 gave an Object with the keys 0 and 1
C14_Witness ==
    /\ pc = "done"
    /\ DOMAIN urlQuery = {<<"0">>, <<"1">>}
    /\ ret.t = "QueryMap"
    /\ DOMAIN ret.m = {<<"0">>, <<"1">>}

(***************************************************************************)
(* Properties of FromURLStringToStruct (checked under SpecStruct)          *)
(***************************************************************************)
\* C15: FromURLStringToStruct returns no record and the error of url.Parse
\* when the URL string does not parse, without building a tree or decoding;
\* no record and the error of the decoder when decoding fails; the decoded
\* record and no error otherwise.  No other error is ever returned.
C15_ErrorsSurfaced ==
    pc = "returned" =>
        /\ arg.URL.err # "nil" =>
               /\ ret = [result |-> [t |-> "none"], err |-> arg.URL.err]
               /\ idx = 0
               /\ data = [t |-> "QueryMap", m |-> <<>>]
               /\ arg.decodeErr = "not attempted"
        /\ arg.URL.err = "nil" =>
               /\ arg.decodeErr # "not attempted"
               /\ arg.decodeErr # "nil" =>
                      ret = [result |-> [t |-> "none"], err |-> arg.decodeErr]
               /\ arg.decodeErr = "nil" =>
                      ret = [result |-> [t |-> "record", from |-> data], err |-> "nil"]
        /\ ret.err \in {"nil", arg.URL.err, arg.decodeErr} \ {"not attempted"}

\* a URL with two raw keys parsed, its tree was built, and the decoder failed
C15_Witness ==
    /\ pc = "returned"
    /\ arg.URL.err = "nil"
    /\ Cardinality(DOMAIN arg.URL.query) = 2
    /\ arg.decodeErr \in DecodeErrors
    /\ ret.err = arg.decodeErr
    /\ ret.result = [t |-> "none"]

(***************************************************************************)
(* Conservation of values and frame of set (checked under Spec)            *)
(***************************************************************************)
\* how often the text x is a leaf of the tree v: a Scalar, or an element of
\* a ScalarList, at any depth
RECURSIVE LeafCount(_, _)
RECURSIVE LeafCountSeq(_, _)
RECURSIVE LeafCountMap(_, _, _)
LeafCountSeq(l, x) ==
    IF l = <<>> THEN 0 ELSE LeafCount(Head(l), x) + LeafCountSeq(Tail(l), x)

LeafCountMap(m, keys, x) ==
    IF keys = {} THEN 0
    ELSE LET k == CHOOSE o \in keys : TRUE
         IN  LeafCount(m[k], x) + LeafCountMap(m, keys \ {k}, x)

LeafCount(v, x) ==
    CASE v.t = "string" -> IF v.s = x THEN 1 ELSE 0
      [] v.t = "[]string" -> Cardinality({i \in 1..Len(v.ss) : v.ss[i] = x})
      [] v.t = "anyList" -> LeafCountSeq(v.l, x)
      [] v.t = "QueryMap" -> LeafCountMap(v.m, DOMAIN v.m, x)

\* how often the text x is a raw value of one of the raw keys ks
RawCount(ks, x) ==
    Cardinality({p \in UNION {{<<k, i>> : i \in 1..Len(urlQuery[k])} : k \in ks} :
                    urlQuery[p[1]][p[2]] = x})

\* the raw keys ingested so far
Ingested == {urlQueryKeys[j] : j \in 1..(idx - 1)}

\* C16: every text occurs as a leaf of the returned tree exactly as often
\* as it occurs as a raw value of the input mapping; the same holds of the
\* tree under construction and the raw keys ingested so far, after every
\* merge and every normalization step.
C16_ValuesConserved ==
    /\ pc \in {"ingest", "normalize"} =>
           \A x \in {ValuePool[i] : i \in 1..Len(ValuePool)} :
               LeafCount(data, x) = RawCount(Ingested, x)
    /\ pc = "done" =>
           \A x \in {ValuePool[i] : i \in 1..Len(ValuePool)} :
               LeafCount(ret, x) = RawCount(DOMAIN urlQuery, x)

\* a[a] and a] with two values: the Object and the two texts are the three
\* items of a DynamicList
C16_Witness ==
    /\ pc = "done"
    /\ DOMAIN urlQuery = {<<"a", "[", "a", "]">>, <<"a", "]">>}
    /\ Len(urlQuery[<<"a", "]">>]) = 2
    /\ ret.m[<<"a">>].t = "anyList"
    /\ Len(ret.m[<<"a">>].l) = 3

\* the top-level keys whose entry differs between the Objects d and e
Changed(d, e) ==
    {k \in (DOMAIN d.m) \cup (DOMAIN e.m) :
        \/ k \notin DOMAIN d.m
        \/ k \notin DOMAIN e.m
        \/ d.m[k] # e.m[k]}

\* C17: q.set(key, v) leaves every entry of q but the one at key as it was
\* and removes none; hence one call of nestedQuery on the root changes at
\* most one top-level entry, the one named by the first segment of a
\* well-formed raw key, and a call that aborts changes nothing.
C17_Frame ==
    [][/\ (pc = "set" /\ pc' = "setDone") =>
              /\ DOMAIN ret'.m = (DOMAIN arg.q.m) \cup {arg.key}
              /\ Changed(arg.q, ret') \subseteq {arg.key}
       /\ (pc = "ingest" /\ pc' = "panic") => data' = data
       /\ (pc = "ingest" /\ pc' # "panic") =>
              /\ DOMAIN data.m \subseteq DOMAIN data'.m
              /\ Cardinality(Changed(data, data')) = 1
              /\ WellFormed(urlQueryKeys[idx]) =>
                     Changed(data, data') = {NameOf(urlQueryKeys[idx])}]_vars

\* set merged an Object into the Object at one key of a receiver with two
\* keys, and the entry at the other key is as it was
C17_Witness ==
    /\ SetReturned
    /\ BothObjects
    /\ DOMAIN arg.untypedValue.m # {}
    /\ Cardinality(DOMAIN arg.q.m) = 2
    /\ ret.m[arg.key] # arg.q.m[arg.key]
    /\ \A k \in DOMAIN arg.q.m \ {arg.key} : ret.m[k] = arg.q.m[k]

\* a raw key whose bracket group is a number beyond the range of int gives
\* an Object that the normalizer does not fold
TooLongKept ==
    (pc = "done" /\ DOMAIN urlQuery = {<<"a", "[">> \o TooLong \o <<"]">>}) =>
        /\ ret.m[<<"a">>].t = "QueryMap"
        /\ DOMAIN ret.m[<<"a">>].m = {TooLong}

====
